---- MODULE Spec2Model ----
(***************************************************************************)
(* Model of the hamdb crate: the callsign parser (src/src/parsing.rs), the *)
(* error classification (src/src/error.rs) and Client::lookup              *)
(* (src/src/v1.rs).                                                        *)
(*                                                                         *)
(* A Rust `char` is modelled by its Unicode code point, a `String`/`&str`  *)
(* by the sequence of its chars.  Byte offsets are computed from the UTF-8 *)
(* width of each char, so that slicing a &str at a byte index can panic as *)
(* it does in Rust.                                                        *)
(***************************************************************************)
EXTENDS Integers, Sequences, FiniteSets, TLC

VARIABLES pc, input, parsed, url, requests, rerr, body, result

vars == <<pc, input, parsed, url, requests, rerr, body, result>>

-----------------------------------------------------------------------------
(* Bounds of the explored inputs.                                          *)

\* longest run of one repeated callsign character put in front of an input
MaxRun == 10
\* longest free-form part of an input (any characters of Alphabet)
MaxTail == 3

\* 'a' 'Z' '1' '/' '-' ' ' and the three-byte EURO SIGN
Alphabet == {97, 90, 49, 47, 45, 32, 8364}
\* the characters repeated in the leading run
RunChars == {97}
\* leading white space: none, a SPACE, a three-byte IDEOGRAPHIC SPACE and a SPACE
Leads == {<<>>, <<32>>, <<12288, 32>>}

Run(c, n) == [k \in 1..n |-> c]

RECURSIVE Strings(_)
Strings(n) ==
    IF n = 0 THEN {<<>>}
    ELSE LET S == Strings(n - 1)
         IN  S \cup {Append(s, c) : s \in {t \in S : Len(t) = n - 1}, c \in Alphabet}

Tails == Strings(MaxTail)

Inputs ==
    {w \o Run(c, n) \o t : w \in Leads, c \in RunChars, n \in 0..MaxRun, t \in Tails}

AppNames == {"station-dashboard"}

-----------------------------------------------------------------------------
(* char and str primitives of the Rust standard library                    *)

\* mutant: the character is pushed as it was read
to_ascii_uppercase_none(c) == c

to_ascii_uppercase(c) == IF c >= 97 /\ c <= 122 THEN c - 32 ELSE c

is_ascii_alphanumeric(c) ==
    \/ c >= 48 /\ c <= 57
    \/ c >= 65 /\ c <= 90
    \/ c >= 97 /\ c <= 122

\* char::is_whitespace: the Unicode White_Space property
is_whitespace(c) ==
    \/ c >= 9 /\ c <= 13
    \/ c \in {32, 133, 160, 5760, 8232, 8233, 8239, 8287, 12288}
    \/ c >= 8192 /\ c <= 8202

len_utf8(c) ==
    IF c < 128 THEN 1 ELSE IF c < 2048 THEN 2 ELSE IF c < 65536 THEN 3 ELSE 4

RECURSIVE ByteLen(_)
\* str::len: the length in bytes
ByteLen(s) == IF s = <<>> THEN 0 ELSE len_utf8(Head(s)) + ByteLen(Tail(s))

\* byte offset at which the k-th char (1-based) starts; k = Len(s)+1 is the end
ByteOffset(s, k) == ByteLen(SubSeq(s, 1, k - 1))

is_char_boundary(s, b) == \E k \in 1..(Len(s) + 1) : ByteOffset(s, k) = b

\* &s[b..]: panics unless b is a char boundary within the string
SliceFrom(s, b) ==
    IF is_char_boundary(s, b)
    THEN LET k == CHOOSE k \in 1..(Len(s) + 1) : ByteOffset(s, k) = b
         IN  [panic |-> FALSE, str |-> SubSeq(s, k, Len(s))]
    ELSE [panic |-> TRUE, str |-> <<>>]

RECURSIVE trim_start(_)
trim_start(s) ==
    IF s # <<>> /\ is_whitespace(Head(s)) THEN trim_start(Tail(s)) ELSE s

RECURSIVE trim_end(_)
trim_end(s) ==
    IF s # <<>> /\ is_whitespace(s[Len(s)])
    THEN trim_end(SubSeq(s, 1, Len(s) - 1))
    ELSE s

trim(s) == trim_end(trim_start(s))

-----------------------------------------------------------------------------
(* parsing.rs                                                              *)

None == [some |-> FALSE, val |-> <<>>]
Some(v) == [some |-> TRUE, val |-> v]

ParsedCallsign(base, suffix) == [kind |-> "Ok", base |-> base, suffix |-> suffix]
Empty == [kind |-> "Empty"]
InvalidChar(in, ch, index) ==
    [kind |-> "InvalidChar", input |-> in, ch |-> ch, index |-> index]
InvalidLength(in, len) == [kind |-> "InvalidLength", input |-> in, len |-> len]
\* the call unwinds instead of returning
Panic == [kind |-> "Panic"]

\* mutant: a base of two characters is accepted
MIN_LEN_two == 3 - 1

MIN_LEN == 3

\* mutant: a base of eleven characters is accepted
MAX_LEN_eleven == 10 + 1

MAX_LEN == 10

\* mutant: the is_empty check is left out
CheckBase_noempty(in, base, suffix) ==
    IF ~(ByteLen(base) >= MIN_LEN /\ ByteLen(base) <= MAX_LEN)
    THEN InvalidLength(in, ByteLen(base))
    ELSE ParsedCallsign(base, suffix)

\* the checks after the scan loop
CheckBase(in, base, suffix) ==
    IF base = <<>> THEN Empty
    ELSE IF ~(ByteLen(base) >= MIN_LEN /\ ByteLen(base) <= MAX_LEN)
         THEN InvalidLength(in, ByteLen(base))
         ELSE ParsedCallsign(base, suffix)

RECURSIVE ScanSuffix_nooffset(_, _, _, _, _)
\* mutant: the index does not count the '/'
ScanSuffix_nooffset(in, end, i, j, s) ==
    IF j >= Len(end) THEN [kind |-> "Scanned", s |-> s]
    ELSE LET c  == end[j + 1]
             up == to_ascii_uppercase(c)
         IN  IF ~is_ascii_alphanumeric(up)
             THEN InvalidChar(in, c, i + j)
             ELSE ScanSuffix_nooffset(in, end, i, j + 1, Append(s, up))

RECURSIVE ScanSuffix(_, _, _, _, _)
\* the inner loop over the remainder after '/'; j is the 0-based char index
ScanSuffix(in, end, i, j, s) ==
    IF j >= Len(end) THEN [kind |-> "Scanned", s |-> s]
    ELSE LET c  == end[j + 1]
             up == to_ascii_uppercase(c)
         IN  IF ~is_ascii_alphanumeric(up)
             THEN InvalidChar(in, c, i + j + 1)
             ELSE ScanSuffix(in, end, i, j + 1, Append(s, up))

RECURSIVE ScanBase_skip(_, _, _, _)
\* mutant: a character that is not alphanumeric is skipped, not reported
ScanBase_skip(in, trimmed, i, base) ==
    IF i >= Len(trimmed) THEN CheckBase(in, base, None)
    ELSE LET c == trimmed[i + 1]
         IN  IF c = 47
             THEN LET end == SliceFrom(trimmed, i + 1)
                  IN  IF end.panic THEN Panic
                      ELSE LET r == ScanSuffix(in, end.str, i, 0, <<>>)
                           IN  IF r.kind = "InvalidChar" THEN r
                               ELSE CheckBase(in, base,
                                        IF r.s = <<>> THEN None ELSE Some(r.s))
             ELSE LET up == to_ascii_uppercase(c)
                  IN  IF ~is_ascii_alphanumeric(up)
                      THEN ScanBase_skip(in, trimmed, i + 1, base)
                      ELSE ScanBase_skip(in, trimmed, i + 1, Append(base, up))

RECURSIVE ScanBase(_, _, _, _)
\* the outer loop over trimmed.chars().enumerate(); i is the 0-based char index
ScanBase(in, trimmed, i, base) ==
    IF i >= Len(trimmed) THEN CheckBase(in, base, None)
    ELSE LET c == trimmed[i + 1]
         IN  IF c = 47
             THEN LET end == SliceFrom(trimmed, i + 1)
                  IN  IF end.panic THEN Panic
                      ELSE LET r == ScanSuffix(in, end.str, i, 0, <<>>)
                           IN  IF r.kind = "InvalidChar" THEN r
                               ELSE CheckBase(in, base,
                                        IF r.s = <<>> THEN None ELSE Some(r.s))
             ELSE LET up == to_ascii_uppercase(c)
                  IN  IF ~is_ascii_alphanumeric(up)
                      THEN InvalidChar(in, c, i)
                      ELSE ScanBase(in, trimmed, i + 1, Append(base, up))

parse_callsign(in) ==
    LET trimmed == trim(in)
    IN  IF trimmed = <<>> THEN Empty ELSE ScanBase(in, trimmed, 0, <<>>)

-----------------------------------------------------------------------------
(* error.rs                                                                *)

\* a reqwest::Error: its kind and whether a timeout is in its source chain
ReqwestError(kind, timeout) == [kind |-> kind, timeout |-> timeout]
NoError == [kind |-> "None", timeout |-> FALSE]

\* the errors RequestBuilder::send can return
SendErrors ==
    {ReqwestError(k, t) : k \in {"Builder", "Request", "Redirect"}, t \in {FALSE}}
        \cup {ReqwestError("Request", TRUE)}

\* the errors reading the body can return before decoding starts
BodyErrors == {ReqwestError("Body", t) : t \in BOOLEAN}

\* the error Response::json returns when serde rejects the body
DecodeError == ReqwestError("Decode", FALSE)

CallsignParsing(e) == [kind |-> "CallsignParsing", err |-> e]
Http(e) == [kind |-> "Http", source |-> e]
BodyParsing(e) == [kind |-> "BodyParsing", source |-> e]
Timeout(e) == [kind |-> "Timeout", source |-> e]
NotFound(callsign) == [kind |-> "NotFound", callsign |-> callsign]
Ok(value) == [kind |-> "Ok", value |-> value]
NoResult == [kind |-> "None"]

\* mutant: the is_decode branch is missing
FromReqwest_nodecode(value) ==
    IF value.timeout THEN Timeout(value) ELSE Http(value)

\* impl From<reqwest::Error> for Error
FromReqwest(value) ==
    IF value.timeout THEN Timeout(value)
    ELSE IF value.kind = "Decode" THEN BodyParsing(value)
    ELSE Http(value)

-----------------------------------------------------------------------------
(* deserialize.rs and the response types of v1.rs                          *)

\* a JSON member that is not there (or is not a string)
Missing == "<missing>"

empty_as_none(s) == IF s = "" THEN [some |-> FALSE, val |-> ""] ELSE [some |-> TRUE, val |-> s]

\* the derived Deserialize of enum Status (rename_all = SCREAMING_SNAKE_CASE)
DeserializeStatus(s) ==
    IF s = "OK" THEN [ok |-> TRUE, status |-> "Ok"]
    ELSE IF s = "NOT_FOUND" THEN [ok |-> TRUE, status |-> "NotFound"]
    ELSE [ok |-> FALSE, status |-> "unknown variant"]

\* the derived Deserialize of CallsignLookup: `call` stands for the required
\* string members, `status` for the members read through empty_as_none
DeserializeCallsignLookup(c) ==
    IF c.call = Missing \/ c.status = Missing
    THEN [ok |-> FALSE, value |-> NoResult]
    ELSE [ok |-> TRUE,
          value |-> [call |-> c.call, status |-> empty_as_none(c.status)]]

\* the response bodies the server can send: text that is no JSON, a JSON
\* document whose record lacks a member, and documents with a full record
\* under every status text
Bodies ==
    {[json |-> FALSE, callsign |-> [call |-> Missing, status |-> Missing],
      status |-> Missing]}
    \cup
    {[json |-> TRUE, callsign |-> c, status |-> "OK"] :
        c \in {[call |-> Missing, status |-> ""], [call |-> "W1AW", status |-> Missing]}}
    \cup
    {[json |-> TRUE, callsign |-> [call |-> c, status |-> s], status |-> st] :
        c \in {"W1AW", "NOT_FOUND"},
        s \in {"", "A"},
        st \in {"OK", "NOT_FOUND", "ok", "PENDING", Missing}}

\* serde_json::from_slice::<ApiResponse>
DeserializeApiResponse(b) ==
    IF ~b.json THEN [ok |-> FALSE]
    ELSE LET c  == DeserializeCallsignLookup(b.callsign)
             st == DeserializeStatus(b.status)
         IN  IF ~c.ok \/ ~st.ok THEN [ok |-> FALSE]
             ELSE [ok |-> TRUE, callsign |-> c.value, status |-> st.status]

-----------------------------------------------------------------------------
(* v1.rs                                                                   *)

V1_ENDPOINT == "https://api.hamdb.org/v1/"
\* seconds
DEFAULT_TIMEOUT == 5

make_url(callsign, app_name) == <<V1_ENDPOINT, callsign, "/json/", app_name>>

NoUrl == <<>>
NoBody == [json |-> FALSE, callsign |-> [call |-> Missing, status |-> Missing],
           status |-> "<none>"]

\* mutant: not-found is reported only when the payload says so too
StatusCheck_payload(value, p) ==
    IF value.status = "NotFound" /\ value.callsign.call = "NOT_FOUND"
    THEN NotFound(p.base)
    ELSE Ok(value.callsign)

\* the tail of lookup, after the envelope is decoded
StatusCheck(value, p) ==
    IF value.status = "NotFound" THEN NotFound(p.base) ELSE Ok(value.callsign)

Init ==
    /\ pc = "idle"
    /\ input = <<>>
    /\ parsed = NoResult
    /\ url = NoUrl
    /\ requests = 0
    /\ rerr = NoError
    /\ body = NoBody
    /\ result = NoResult

\* a caller calls the public parse_callsign directly
CallParse ==
    /\ pc = "idle"
    /\ \E s \in Inputs :
        /\ input' = s
        /\ parsed' = parse_callsign(s)
    /\ pc' = "parsed"
    /\ UNCHANGED <<url, requests, rerr, body, result>>

\* lookup up to its first await: parse, build the URL, send the request
LookupStart ==
    /\ pc = "idle"
    /\ \E s \in Inputs, app \in AppNames :
        /\ input' = s
        /\ parsed' = parse_callsign(s)
        /\ IF parsed'.kind = "Panic"
           THEN /\ pc' = "panicked"
                /\ UNCHANGED <<url, requests, result>>
           ELSE IF parsed'.kind # "Ok"
           THEN /\ result' = CallsignParsing(parsed')
                /\ pc' = "done"
                /\ UNCHANGED <<url, requests>>
           ELSE /\ url' = make_url(parsed'.base, app)
                /\ requests' = requests + 1
                /\ pc' = "send"
                /\ UNCHANGED result
    /\ UNCHANGED <<rerr, body>>

\* mutant: a failed request is sent again
SendFail_retry ==
    /\ pc = "send"
    /\ \E e \in SendErrors : rerr' = e
    /\ requests' = requests + 1
    /\ pc' = "send"
    /\ UNCHANGED <<input, parsed, url, body, result>>

\* send().await fails (the 5 s timeout passing is one of the failures)
SendFail ==
    /\ pc = "send"
    /\ \E e \in SendErrors :
        /\ rerr' = e
        /\ result' = FromReqwest(e)
    /\ pc' = "done"
    /\ UNCHANGED <<input, parsed, url, requests, body>>

\* send().await yields a response
SendOk ==
    /\ pc = "send"
    /\ pc' = "json"
    /\ UNCHANGED <<input, parsed, url, requests, rerr, body, result>>

\* res.json().await fails while the body is being read
JsonReadFail ==
    /\ pc = "json"
    /\ \E e \in BodyErrors :
        /\ rerr' = e
        /\ result' = FromReqwest(e)
    /\ pc' = "done"
    /\ UNCHANGED <<input, parsed, url, requests, body>>

\* res.json().await reads the whole body and decodes it; then the status check
JsonBody ==
    /\ pc = "json"
    /\ \E b \in Bodies :
        /\ body' = b
        /\ LET value == DeserializeApiResponse(b)
           IN  IF ~value.ok
               THEN /\ rerr' = DecodeError
                    /\ result' = FromReqwest(DecodeError)
               ELSE /\ result' = StatusCheck(value, parsed)
                    /\ UNCHANGED rerr
    /\ pc' = "done"
    /\ UNCHANGED <<input, parsed, url, requests>>

Next ==
    \/ CallParse
    \/ LookupStart
    \/ SendFail
    \/ SendOk
    \/ JsonReadFail
    \/ JsonBody

Spec == Init /\ [][Next]_vars

-----------------------------------------------------------------------------
(* Vocabulary of the properties, stated on the input text alone            *)

AsciiLetterOrDigit(c) == c \in (48..57) \cup (65..90) \cup (97..122)
UpperLetterOrDigit(c) == c \in (48..57) \cup (65..90)
Uppercase(s) == [k \in 1..Len(s) |-> IF s[k] \in 97..122 THEN s[k] - 32 ELSE s[k]]
AllLettersOrDigits(s) == \A k \in 1..Len(s) : AsciiLetterOrDigit(s[k])

RECURSIVE FirstSlashFrom(_, _)
FirstSlashFrom(t, k) ==
    IF k > Len(t) THEN 0 ELSE IF t[k] = 47 THEN k ELSE FirstSlashFrom(t, k + 1)

\* 1-based position of the first '/', 0 when there is none
FirstSlash(t) == FirstSlashFrom(t, 1)

BaseOf(t) == IF FirstSlash(t) = 0 THEN t ELSE SubSeq(t, 1, FirstSlash(t) - 1)
RestOf(t) == IF FirstSlash(t) = 0 THEN <<>> ELSE SubSeq(t, FirstSlash(t) + 1, Len(t))

RECURSIVE LeftmostBadFrom(_, _, _)
LeftmostBadFrom(t, k, slash) ==
    IF k > Len(t) THEN 0
    ELSE IF ~AsciiLetterOrDigit(t[k]) /\ k # slash THEN k
    ELSE LeftmostBadFrom(t, k + 1, slash)

\* 1-based position of the leftmost character that is no letter or digit, the
\* first '/' aside; 0 when there is none
LeftmostBad(t) == LeftmostBadFrom(t, 1, FirstSlash(t))

\* parse_callsign has just been applied to `input`, by a direct call or by lookup
Applied ==
    \/ pc \in {"parsed", "send", "panicked"}
    \/ pc = "done" /\ result.kind = "CallsignParsing"
Trimmed == trim(input)

-----------------------------------------------------------------------------
(* Properties                                                              *)

\* C1: an input whose trimmed form is B or B/S, with B of 3 to 10 ASCII
\* letters/digits and S a possibly empty string of ASCII letters/digits,
\* parses to base = uppercase(B) and suffix = uppercase(S), the suffix being
\* absent when there is no '/' or S is empty.
C1_WellFormedParses ==
    Applied =>
        LET B == BaseOf(Trimmed)
            S == RestOf(Trimmed)
        IN  (/\ Len(B) >= 3 /\ Len(B) <= 10
             /\ AllLettersOrDigits(B)
             /\ AllLettersOrDigits(S))
            => /\ parsed.kind = "Ok"
               /\ parsed.base = Uppercase(B)
               /\ parsed.suffix = IF S = <<>>
                                  THEN [some |-> FALSE, val |-> <<>>]
                                  ELSE [some |-> TRUE, val |-> Uppercase(S)]

\* a padded lower-case callsign with a lower-case suffix was parsed
C1_Witness ==
    /\ pc = "parsed" /\ parsed.kind = "Ok"
    /\ input # Trimmed
    /\ parsed.suffix.some /\ parsed.suffix.val # RestOf(Trimmed)
    /\ parsed.base # BaseOf(Trimmed)

\* C2: every returned ParsedCallsign has a base of 3 to 10 upper-case ASCII
\* letters/digits, and a suffix that, when present, is non-empty and made of
\* upper-case ASCII letters/digits.
C2_ParsedCallsignInvariant ==
    parsed.kind = "Ok"
    => /\ Len(parsed.base) >= 3 /\ Len(parsed.base) <= 10
       /\ \A k \in 1..Len(parsed.base) : UpperLetterOrDigit(parsed.base[k])
       /\ parsed.suffix.some
            => /\ parsed.suffix.val # <<>>
               /\ \A k \in 1..Len(parsed.suffix.val) :
                    UpperLetterOrDigit(parsed.suffix.val[k])

\* a base of the shortest accepted length, with a suffix
C2_Witness ==
    /\ parsed.kind = "Ok" /\ Len(parsed.base) = 3 /\ parsed.suffix.some
    /\ \E k \in 1..Len(input) : input[k] \in 97..122

\* C3: when the trimmed input holds a character that is no ASCII letter or
\* digit (the first '/' aside), the result is InvalidChar with the leftmost
\* such character and its zero-based position in the trimmed string; a second
\* '/' is reported this way at its own position.
C3_InvalidCharLeftmost ==
    Applied =>
        LET t == Trimmed
            k == LeftmostBad(t)
        IN  k # 0
            => /\ parsed.kind = "InvalidChar"
               /\ parsed.ch = t[k]
               /\ parsed.index = k - 1

\* a second '/' was reported, behind a non-empty suffix
C3_Witness ==
    /\ parsed.kind = "InvalidChar" /\ parsed.ch = 47
    /\ FirstSlash(Trimmed) > 1
    /\ parsed.index > FirstSlash(Trimmed)

\* C4: with every scanned character valid and a non-empty base shorter than 3
\* or longer than 10, the result is InvalidLength with the length of the base
\* alone; an invalid character anywhere yields InvalidChar instead.
C4_InvalidLengthOfBase ==
    Applied =>
        LET t == Trimmed
            B == BaseOf(t)
        IN  /\ (/\ LeftmostBad(t) = 0
                /\ B # <<>>
                /\ (Len(B) < 3 \/ Len(B) > 10))
               => /\ parsed.kind = "InvalidLength"
                  /\ parsed.len = Len(B)
            /\ LeftmostBad(t) # 0 => parsed.kind = "InvalidChar"

\* a base of eleven characters followed by a suffix was rejected
C4_Witness ==
    /\ parsed.kind = "InvalidLength" /\ parsed.len = 11
    /\ RestOf(Trimmed) # <<>>

\* C5 as stated: Empty whenever the trimmed input is empty or the base before
\* the first '/' is empty.
C5_EmptyBaseIsEmpty ==
    (Applied /\ (Trimmed = <<>> \/ BaseOf(Trimmed) = <<>>))
    => parsed.kind = "Empty"

\* C5 amended: Empty when the trimmed input is empty, and when the base before
\* the first '/' is empty and every character after that '/' is an ASCII
\* letter or digit; never InvalidLength with len 0.
C5_EmptyBaseValidSuffixIsEmpty ==
    /\ Applied =>
        LET t == Trimmed
        IN  (t = <<>> \/ (BaseOf(t) = <<>> /\ AllLettersOrDigits(RestOf(t))))
            => parsed.kind = "Empty"
    /\ parsed.kind = "InvalidLength" => parsed.len # 0

\* an input such as "/AE": no base, a valid suffix
C5_Witness ==
    /\ parsed.kind = "Empty"
    /\ Trimmed # <<>> /\ RestOf(Trimmed) # <<>>

EnvelopeShaped(b) ==
    b.json /\ b.callsign.call # Missing /\ b.callsign.status # Missing

C8_UnknownStatusDecodes ==
    (/\ pc = "done" /\ EnvelopeShaped(body)
     /\ body.status \notin {"OK", "NOT_FOUND", Missing})
    => /\ result.kind = "Ok"
       /\ result.value.call = body.callsign.call

\* C9: a failed round trip returns Timeout when the request timed out (while
\* sending or while reading the body), BodyParsing when the body is not JSON
\* of the expected shape, Http for any other transport failure; a failure is
\* never turned into a successful result.
C9_FailureKinds ==
    /\ (pc = "done" /\ rerr # NoError)
       => /\ result.kind \in {"Timeout", "BodyParsing", "Http"}
          /\ result.source = rerr
          /\ result.kind = "Timeout" <=> rerr.timeout
          /\ result.kind = "BodyParsing" <=> (rerr.kind = "Decode" /\ ~rerr.timeout)
    /\ (pc = "done" /\ body # NoBody /\ ~EnvelopeShaped(body))
       => /\ result.kind = "BodyParsing"
          /\ rerr.kind = "Decode"
    /\ (pc = "done" /\ result.kind \in {"Ok", "NotFound"}) => rerr = NoError

\* the timeout passed while the body was being read
C9_Witness ==
    /\ pc = "done" /\ result.kind = "Timeout" /\ rerr.kind = "Body"

\* C10: parse_callsign returns a value for every input; the slice after the
\* first '/' never falls inside a multi-byte character.
C10_NeverPanics ==
    /\ pc # "panicked"
    /\ pc # "idle" => parsed.kind \in {"Ok", "Empty", "InvalidChar", "InvalidLength"}

\* a three-byte character in front of a '/' was reported
C10_Witness ==
    /\ parsed.kind = "InvalidChar" /\ parsed.ch = 8364
    /\ FirstSlash(Trimmed) > parsed.index + 1

====
